---- MODULE Spec2Model ----
(***************************************************************************)
(* Model of src/src/set.rs of bellman-bignat: the native accumulators      *)
(* (Set over an IntSet backend, MerkleSet), the batch inputs of the        *)
(* benchmark circuit (SetBenchInputs), the orchestrating circuit           *)
(* (SetBench::synthesize) and the hash-tree circuit (MerkleCircuitSet).    *)
(*                                                                         *)
(* Field elements are small naturals.  Poseidon digests are terms: a       *)
(* sequence of integers in which -1 opens and -2 closes a hash, so that    *)
(* two digests are equal exactly when they hash the same inputs (the       *)
(* collision-free idealisation of the hash).  The bit widths of the RSA    *)
(* group and of the element encoding are scaled down to what TLC's         *)
(* integers hold.                                                          *)
(***************************************************************************)
EXTENDS Integers, Sequences, FiniteSets, TLC

\* ------------------------------------------------------------------ bounds
\* number of distinct items the inputs are drawn from
NItems == 2
\* number of field elements of an item (item_size)
ItemSize == 2
\* longest initial item collection
MaxInit == 2
\* number of single swaps / inserts / removes applied to a native set
MaxOps == 2
\* longest batch of removed (or inserted) items
MaxBatch == 2
\* depth of the hash tree (number of non-root levels)
Depth == 2
\* longest list of untouched items of a batch input
MaxUntouched == 1

\* ------------------------------------------------------- program constants
\* RsaGroup.g of the test
RsaG == 2
\* RsaGroup.m of the test, scaled down (61 * 53)
RsaM == 3233
\* n_bits_elem, scaled down
ElementBits == 4
\* HashDomain.n_trailing_ones
TrailingOnes == 1
\* limb_width, scaled down
LimbWidth == 4
\* n_bits_base, scaled down (12 bits hold RsaM)
BaseBits == 12

\* ------------------------------------------------------------------- items
\* An item is a sequence of ItemSize field elements; as the items of the
\* tests, two items differ in their last element.
Item(i) == [j \in 1..ItemSize |-> IF j = ItemSize THEN i ELSE j - 1]

Items == {Item(i) : i \in 0..(NItems - 1)}

RECURSIVE SeqsUpTo(_, _)
SeqsUpTo(S, n) ==
    IF n = 0 THEN {<< >>}
    ELSE LET shorter == SeqsUpTo(S, n - 1)
         IN  shorter \cup {Append(s, x) : s \in {t \in shorter : Len(t) = n - 1}, x \in S}

Range(s) == {s[i] : i \in DOMAIN s}

RECURSIVE Pow(_, _)
Pow(b, e) == IF e = 0 THEN 1 ELSE b * Pow(b, e - 1)

\* ------------------------------------------------------------ RSA encoding
\* BigUint::modpow
RECURSIVE ModPow(_, _, _)
ModPow(b, e, m) ==
    IF e = 0 THEN 1 % m
    ELSE LET h == ModPow(b, e \div 2, m)
             sq == (h * h) % m
         IN  IF e % 2 = 0 THEN sq ELSE (sq * (b % m)) % m

RECURSIVE Mix(_, _)
Mix(item, h) ==
    IF item = << >> THEN h
    ELSE Mix(Tail(item), h * 3 + Head(item) + 1)

\* rsa::helper::hash_to_rsa_element: an odd integer of exactly n_bits bits,
\* a deterministic function of the item and the hash domain.
hash_to_rsa_element(item) ==
    Pow(2, ElementBits - 1)
      + Pow(2, TrailingOnes) * (Mix(item, 0) % Pow(2, ElementBits - 1 - TrailingOnes))
      + (Pow(2, TrailingOnes) - 1)

EncVals == {Pow(2, ElementBits - 1) + 2 * k + 1 : k \in 0..(Pow(2, ElementBits - 2) - 1)}

\* the group of the tests
RsaGroup == [g |-> RsaG, m |-> RsaM]

\* ------------------------------------------------- IntSet (NaiveExpSet)
\* The tracked elements are a multiset: elements[e] is the number of copies.
IntSet_new(group) ==
    [group |-> group, elements |-> [e \in EncVals |-> 0], digest |-> group.g % group.m]

\* the digest recomputed from the surviving elements
RECURSIVE FoldDigest(_, _, _)
FoldDigest(group, elements, todo) ==
    IF todo = {} THEN group.g % group.m
    ELSE LET e == CHOOSE x \in todo : \A y \in todo : x >= y
             rest == FoldDigest(group, elements, todo \ {e})
         IN  ModPow(rest, Pow(e, elements[e]), group.m)

\* insert: Digest <- Digest^encoding mod modulus; reports whether absent before
IntSet_insert(s, n) ==
    [set |-> [s EXCEPT !.elements[n] = @ + 1,
                       !.digest = ModPow(s.digest, n, s.group.m)],
     ret |-> s.elements[n] = 0]

\* remove: reports whether present; the digest is recomputed from the survivors
IntSet_remove(s, n) ==
    IF s.elements[n] > 0
    THEN LET els == [s.elements EXCEPT ![n] = @ - 1]
         IN  [set |-> [s EXCEPT !.elements = els,
                                !.digest = FoldDigest(s.group, els, EncVals)],
              ret |-> TRUE]
    ELSE [set |-> s, ret |-> FALSE]

RECURSIVE IntSet_insert_seq(_, _)
IntSet_insert_seq(s, ns) ==
    IF ns = << >> THEN s
    ELSE IntSet_insert_seq(IntSet_insert(s, Head(ns)).set, Tail(ns))

IntSet_new_with(group, ns) == IntSet_insert_seq(IntSet_new(group), ns)

IntSet_digest(s) == s.digest

\* ------------------------------------------------------------- native Set
Set_new_with(group, items) ==
    [inner |-> IntSet_new_with(group,
                   [i \in DOMAIN items |-> hash_to_rsa_element(items[i])]),
     n_bits |-> ElementBits,
     limb_width |-> LimbWidth]

Set_insert(s, n) ==
    LET r == IntSet_insert(s.inner, hash_to_rsa_element(n))
    IN  [set |-> [s EXCEPT !.inner = r.set], ret |-> r.ret]

Set_remove(s, n) ==
    LET r == IntSet_remove(s.inner, hash_to_rsa_element(n))
    IN  [set |-> [s EXCEPT !.inner = r.set], ret |-> r.ret]

\* remove_all that returns at the first item that was not present
RECURSIVE remove_all_until_absent(_, _)
remove_all_until_absent(s, ns) ==
    IF ns = << >> THEN [set |-> s, ret |-> TRUE]
    ELSE LET r == Set_remove(s, Head(ns))
         IN  IF r.ret THEN remove_all_until_absent(r.set, Tail(ns))
             ELSE [set |-> r.set, ret |-> FALSE]

RECURSIVE remove_all(_, _)
remove_all(s, ns) ==
    IF ns = << >> THEN [set |-> s, ret |-> TRUE]
    ELSE LET r == Set_remove(s, Head(ns))
             rest == remove_all(r.set, Tail(ns))
         IN  [set |-> rest.set, ret |-> r.ret /\ rest.ret]

RECURSIVE insert_all(_, _)
insert_all(s, ns) ==
    IF ns = << >> THEN [set |-> s, ret |-> TRUE]
    ELSE LET r == Set_insert(s, Head(ns))
             rest == insert_all(r.set, Tail(ns))
         IN  [set |-> rest.set, ret |-> r.ret /\ rest.ret]

\* Set::swap without its remove: the old item stays in the set
Set_swap_keeps_old(s, old, new) == Set_insert(s, new).set

\* Set::swap: the results of remove and insert are dropped
Set_swap(s, old, new) == Set_insert(Set_remove(s, old).set, new).set

Set_digest(s) == IntSet_digest(s.inner)

\* swap_all that stops after the first pair
Set_swap_all_first_only(s, old, new) ==
    IF old = << >> \/ new = << >> THEN s
    ELSE Set_swap(s, Head(old), Head(new))

\* GenSet::swap_all for Set: swap over the zipped pairs
RECURSIVE Set_swap_all(_, _, _)
Set_swap_all(s, old, new) ==
    IF old = << >> \/ new = << >> THEN s
    ELSE Set_swap_all(Set_swap(s, Head(old), Head(new)), Tail(old), Tail(new))

\* ---------------------------------------------------------- SetBenchInputs
Some(x) == [some |-> TRUE, v |-> x]

None == [some |-> FALSE]

\* the fold of SetBenchInputs::new: g raised successively to the encodings
RECURSIVE fold_modpow(_, _, _)
fold_modpow(g, items, m) ==
    IF items = << >> THEN g
    ELSE fold_modpow(ModPow(g, hash_to_rsa_element(Head(items)), m), Tail(items), m)

\* SetBenchInputs::new with the final digest folded over the removed items
SetBenchInputs_new_folds_removed(untouched, removed, inserted, group) ==
    [initial_state |-> Set_new_with(group, untouched \o removed),
     final_digest |-> fold_modpow(group.g, untouched \o removed, group.m),
     to_remove |-> removed,
     to_insert |-> inserted]

\* SetBenchInputs::new (the items already parsed into field elements)
SetBenchInputs_new(untouched, removed, inserted, group) ==
    [initial_state |-> Set_new_with(group, untouched \o removed),
     final_digest |-> fold_modpow(group.g, untouched \o inserted, group.m),
     to_remove |-> removed,
     to_insert |-> inserted]

\* ------------------------------------------------- circuit values (BigNat)
\* limb i of a natural number (limb 0 is the least significant)
Limb(n, i) == (n \div Pow(2, LimbWidth * i)) % Pow(2, LimbWidth)

\* n_limbs of the group and of the digests
NLimbs == BaseBits \div LimbWidth

\* an allocated number or BigNat: the namespace it was allocated in and its
\* value, absent during setup
Wire(ns, i, j, val) == [ns |-> ns, i |-> i, j |-> j, val |-> val]

\* the values of a list of wires, if all are present
Values(ws) ==
    IF \A k \in DOMAIN ws : ws[k].val.some
    THEN Some([k \in DOMAIN ws |-> ws[k].val.v])
    ELSE None

\* the values of a list of items (lists of wires), if all are present
ItemValues(items) ==
    IF \A k \in DOMAIN items : Values(items[k]).some
    THEN Some([k \in DOMAIN items |-> Values(items[k]).v])
    ELSE None

\* primes of the challenge width
ChallengePrimes ==
    <<131, 137, 139, 149, 151, 157, 163, 167, 173, 179, 181, 191,
      193, 197, 199, 211, 223, 227, 229, 233, 239, 241, 251>>

RECURSIVE HashChain(_, _)
HashChain(xs, h) ==
    IF xs = << >> THEN h
    ELSE HashChain(Tail(xs), (h * 31 + Head(xs) + 1) % 10007)

\* pocklington::hash_to_pocklington_prime on values: a prime determined by
\* the hashed sequence, order included
PocklingtonPrime(xs) == ChallengePrimes[(HashChain(xs, 7) % Len(ChallengePrimes)) + 1]

\* pocklington::hash_to_pocklington_prime: the challenge BigNat
hash_to_pocklington_prime(ws) ==
    Wire("chash", 0, 0,
         IF Values(ws).some THEN Some(PocklingtonPrime(Values(ws).v)) ELSE None)

\* ------------------------------------------------------------ CircuitIntSet
CircuitIntSet_alloc(ns, value) ==
    [value |-> value,
     digest |-> Wire(ns, 0, 0, IF value.some THEN Some(IntSet_digest(value.v)) ELSE None)]

RECURSIVE IntSet_remove_seq(_, _)
IntSet_remove_seq(s, ns) ==
    IF ns = << >> THEN s
    ELSE IntSet_remove_seq(IntSet_remove(s, Head(ns)).set, Tail(ns))

\* CircuitIntSet::remove: the digest of the set without the removed elements
CircuitIntSet_remove(s, ns, challenge, removals) ==
    LET value == IF s.value.some /\ Values(removals).some
                 THEN Some(IntSet_remove_seq(s.value.v, Values(removals).v))
                 ELSE None
    IN  CircuitIntSet_alloc(ns, value)

\* CircuitIntSet::insert: the digest of the set with the inserted elements
CircuitIntSet_insert(s, ns, challenge, insertions) ==
    LET value == IF s.value.some /\ Values(insertions).some
                 THEN Some(IntSet_insert_seq(s.value.v, Values(insertions).v))
                 ELSE None
    IN  CircuitIntSet_alloc(ns, value)

\* rsa::hash_to_rsa_element in the circuit, for each item of a list
CircuitEncodings(ns, items) ==
    [k \in DOMAIN items |->
        Wire(ns, k - 1, 0,
             IF Values(items[k]).some
             THEN Some(hash_to_rsa_element(Values(items[k]).v))
             ELSE None)]

\* --------------------------------------------------------------- CircuitSet
CircuitSet_alloc(ns, value) ==
    [value |-> value,
     inner |-> CircuitIntSet_alloc(ns, IF value.some THEN Some(value.v.inner) ELSE None)]

\* CircuitSet::remove without the assertion on remove_all
CircuitSet_remove_unasserted(this, ns, challenge, items) ==
    LET removals == CircuitEncodings(ns, items)
        inner == CircuitIntSet_remove(this.inner, ns, challenge, removals)
        is == ItemValues(items)
    IN  IF this.value.some /\ is.some
        THEN [set |-> [value |-> Some(remove_all(this.value.v, is.v).set), inner |-> inner],
              panicked |-> FALSE]
        ELSE [set |-> [value |-> None, inner |-> inner], panicked |-> FALSE]

\* CircuitSet::remove; panicked when the assertion on remove_all fails
CircuitSet_remove(this, ns, challenge, items) ==
    LET removals == CircuitEncodings(ns, items)
        inner == CircuitIntSet_remove(this.inner, ns, challenge, removals)
        is == ItemValues(items)
        r == remove_all(this.value.v, is.v)
    IN  IF this.value.some /\ is.some
        THEN [set |-> [value |-> Some(r.set), inner |-> inner], panicked |-> ~r.ret]
        ELSE [set |-> [value |-> None, inner |-> inner], panicked |-> FALSE]

\* CircuitSet::insert that leaves the native value as it was
CircuitSet_insert_value_kept(this, ns, challenge, items) ==
    LET insertions == CircuitEncodings(ns, items)
        inner == CircuitIntSet_insert(this.inner, ns, challenge, insertions)
    IN  [value |-> this.value, inner |-> inner]

\* CircuitSet::insert
CircuitSet_insert(this, ns, challenge, items) ==
    LET insertions == CircuitEncodings(ns, items)
        inner == CircuitIntSet_insert(this.inner, ns, challenge, insertions)
        is == ItemValues(items)
    IN  IF this.value.some /\ is.some
        THEN [value |-> Some(insert_all(this.value.v, is.v).set), inner |-> inner]
        ELSE [value |-> None, inner |-> inner]

\* ------------------------------------------------- SetBench::synthesize
\* the allocated numbers of the items of a batch
AllocItems(ns, n, to) ==
    [i \in 1..n |->
        [j \in 1..ItemSize |->
            Wire(ns, i - 1, j - 1, IF to.some THEN Some(to.v[i][j]) ELSE None)]]

\* flat_map over the items of a batch
RECURSIVE Flatten(_)
Flatten(items) ==
    IF items = << >> THEN << >> ELSE Head(items) \o Flatten(Tail(items))

\* the limbs of the digest, each as an allocated number
DigestLimbs(digest) ==
    [k \in 1..NLimbs |->
        Wire("digest hash", k - 1, 0,
             IF digest.val.some THEN Some(Limb(digest.val.v, k - 1)) ELSE None)]

\* to_hash_to_challenge with the removals ahead of the insertions
to_hash_removals_first(set, insertions, removals) ==
    DigestLimbs(set.inner.digest) \o Flatten(removals) \o Flatten(insertions)

\* to_hash_to_challenge without the digest
to_hash_without_digest(set, insertions, removals) ==
    Flatten(insertions) \o Flatten(removals)

\* to_hash_to_challenge: three extends
to_hash_to_challenge_of(set, insertions, removals) ==
    DigestLimbs(set.inner.digest) \o Flatten(insertions) \o Flatten(removals)

\* --------------------------------------------------------------- MerkleSet
\* usize_to_f(0): the value of an unoccupied leaf
Zero == <<0>>

RECURSIVE Concat(_)
Concat(ts) == IF ts = << >> THEN << >> ELSE Head(ts) \o Concat(Tail(ts))

\* poseidon_hash over a sequence of field elements given as terms
poseidon_hash(ts) == <<-1>> \o Concat(ts) \o <<-2>>

\* the native field elements of an item, as terms
ItemTerms(item) == [j \in DOMAIN item |-> <<item[j]>>]

\* the leaf of an item: poseidon_hash(item).pop()
leaf_hash(item) == poseidon_hash(ItemTerms(item))

\* MerkleSet::hash
hash(child_1, child_2) == poseidon_hash(<<child_1, child_2>>)

\* MerkleSet::get_node
get_node(this, level, index) ==
    IF <<level, index>> \in DOMAIN this.nodes
    THEN this.nodes[<<level, index>>]
    ELSE this.defaults[level]

\* the loop of update_hashes_from_leaf_index, from `level` down to the root
RECURSIVE update_levels(_, _, _)
update_levels(this, level, index) ==
    IF level < 0 THEN this
    ELSE LET child_1 == get_node(this, level + 1, 2 * index)
             child_2 == get_node(this, level + 1, 2 * index + 1)
             h == hash(child_1, child_2)
         IN  update_levels([this EXCEPT !.nodes = (<<level, index>> :> h) @@ this.nodes],
                           level - 1, index \div 2)

\* update_hashes_from_leaf_index that recomputes nothing
update_hashes_forgotten(this, index) == this

\* update_hashes_from_leaf_index without the first halving of the index
update_hashes_unhalved(this, index) ==
    update_levels(this, this.depth - 1, index)

update_hashes_from_leaf_index(this, index) ==
    update_levels(this, this.depth - 1, index \div 2)

\* defaults[depth] is zero, defaults[l] hashes two copies of defaults[l + 1]
RECURSIVE default_at(_, _)
default_at(depth, level) ==
    IF level = depth THEN Zero
    ELSE LET prev == default_at(depth, level + 1) IN poseidon_hash(<<prev, prev>>)

RECURSIVE update_all(_, _, _)
update_all(this, i, n) ==
    IF i >= n THEN this
    ELSE update_all(update_hashes_from_leaf_index(this, i), i + 1, n)

MerkleSet_new_with(depth, items) ==
    LET n == Len(items)
        leaves == [i \in 1..n |-> leaf_hash(items[i])]
        \* collected into a map in order: a later equal key replaces the earlier one
        leaf_indices == [h \in Range(leaves) |->
                            (CHOOSE i \in 1..n : leaves[i] = h
                                 /\ \A k \in 1..n : leaves[k] = h => k <= i) - 1]
        nodes == [p \in {<<depth, i>> : i \in 0..(n - 1)} |-> leaves[p[2] + 1]]
        this == [nodes |-> nodes,
                 defaults |-> [l \in 0..depth |-> default_at(depth, l)],
                 depth |-> depth,
                 leaf_indices |-> leaf_indices]
    IN  update_all(this, 0, n)

\* the map without key k
MapRemove(f, k) == [x \in (DOMAIN f) \ {k} |-> f[x]]

\* MerkleSet::witness: pairs (bit, hash) from the top of the tree down;
\* requires the item's leaf to be in leaf_indices
witness(this, item) ==
    LET i == this.leaf_indices[leaf_hash(item)]
    IN  [lv \in 1..this.depth |->
            LET level == lv - 1
                index_at_level == i \div Pow(2, this.depth - (level + 1))
                sibling == IF index_at_level % 2 = 0 THEN index_at_level + 1
                           ELSE index_at_level - 1
            IN  [bit |-> index_at_level % 2 = 0,
                 hash |-> get_node(this, level + 1, sibling)]]

\* MerkleSet::swap that leaves the key of old in leaf_indices
MerkleSet_swap_keeps_key(this, old, new) ==
    LET o_r == leaf_hash(old)
        n == leaf_hash(new)
    IN  IF o_r \notin DOMAIN this.leaf_indices
        THEN [set |-> this, aborted |-> TRUE]
        ELSE LET i == this.leaf_indices[o_r]
                 nodes == (<<this.depth, i>> :> n) @@ this.nodes
                 indices == (n :> i) @@ this.leaf_indices
             IN  [set |-> update_hashes_from_leaf_index(
                              [this EXCEPT !.nodes = nodes, !.leaf_indices = indices], i),
                  aborted |-> FALSE]

\* MerkleSet::swap: aborts (expect) when old has no leaf
MerkleSet_swap(this, old, new) ==
    LET o_r == leaf_hash(old)
        n == leaf_hash(new)
    IN  IF o_r \notin DOMAIN this.leaf_indices
        THEN [set |-> this, aborted |-> TRUE]
        ELSE LET i == this.leaf_indices[o_r]
                 nodes == (<<this.depth, i>> :> n) @@ this.nodes
                 indices == (n :> i) @@ MapRemove(this.leaf_indices, o_r)
             IN  [set |-> update_hashes_from_leaf_index(
                              [this EXCEPT !.nodes = nodes, !.leaf_indices = indices], i),
                  aborted |-> FALSE]

MerkleSet_digest(this) == get_node(this, 0, 0)

\* swap_all that takes the pairs from the last to the first
RECURSIVE MerkleSet_swap_all_backwards(_, _, _)
MerkleSet_swap_all_backwards(this, old, new) ==
    IF old = << >> \/ new = << >> THEN [set |-> this, aborted |-> FALSE]
    ELSE LET n == IF Len(old) <= Len(new) THEN Len(old) ELSE Len(new)
             r == MerkleSet_swap(this, old[n], new[n])
         IN  IF r.aborted THEN r
             ELSE MerkleSet_swap_all_backwards(r.set, SubSeq(old, 1, n - 1),
                                               SubSeq(new, 1, n - 1))

\* GenSet::swap_all for MerkleSet: swap over the zipped pairs, up to an abort
RECURSIVE MerkleSet_swap_all(_, _, _)
MerkleSet_swap_all(this, old, new) ==
    IF old = << >> \/ new = << >> THEN [set |-> this, aborted |-> FALSE]
    ELSE LET r == MerkleSet_swap(this, Head(old), Head(new))
         IN  IF r.aborted THEN r
             ELSE MerkleSet_swap_all(r.set, Tail(old), Tail(new))

\* -------------------------------------------------------- MerkleCircuitSet
\* the place of a wire in the constraint system: the swap whose namespace it
\* lies in (-1 outside swap_all), the block, the gadget and the level
WId(swap, part, what, level) == [swap |-> swap, part |-> part, what |-> what, level |-> level]

NoId == WId(-1, "", "", 0)

\* an allocated number or bit of the circuit: its place and its value,
\* absent during setup
MWire(id, val) == [id |-> id, val |-> val]

\* a constraint or allocation at `id` over the wires a and b
MEv(id, a, b, ok) == [id |-> id, a |-> a, b |-> b, ok |-> ok]

\* MerkleCircuitSet::alloc
MerkleCircuitSet_alloc(value) ==
    [value |-> value,
     digest |-> MWire(WId(-1, "digest", "alloc", 0),
                      IF value.some THEN Some(MerkleSet_digest(value.v)) ELSE None)]

\* the allocated numbers of the items handed to swap_all; withValues tells
\* whether they carry values
ItemWires(part, items, withValues) ==
    [k \in DOMAIN items |->
        [e \in 1..ItemSize |->
            MWire(WId(k - 1, part, "item", e - 1),
                  IF withValues THEN Some(items[k][e]) ELSE None)]]

\* a native witness that expects the native value to be there
NativeWitness_expects_value(this, old) ==
    IF ~this.value.some \/ ~Values(old).some THEN [witness |-> None, panicked |-> TRUE]
    ELSE IF leaf_hash(Values(old).v) \notin DOMAIN this.value.v.leaf_indices
    THEN [witness |-> None, panicked |-> TRUE]
    ELSE [witness |-> Some(witness(this.value.v, Values(old).v)), panicked |-> FALSE]

\* the native witness of swap_all: the expects on the item values and on the
\* leaf lookup panic
NativeWitness(this, old) ==
    IF ~this.value.some THEN [witness |-> None, panicked |-> FALSE]
    ELSE IF ~Values(old).some THEN [witness |-> None, panicked |-> TRUE]
    ELSE IF leaf_hash(Values(old).v) \notin DOMAIN this.value.v.leaf_indices
    THEN [witness |-> None, panicked |-> TRUE]
    ELSE [witness |-> Some(witness(this.value.v, Values(old).v)), panicked |-> FALSE]

\* the path allocated for swap j: a direction bit and a hash per level
AllocPathWires(j, depth, w) ==
    [i \in 1..depth |->
        [bit |-> MWire(WId(j, "alloc path", "direction", i - 1),
                       IF w.some THEN Some(w.v[i].bit) ELSE None),
         hash |-> MWire(WId(j, "alloc path", "hash", i - 1),
                        IF w.some THEN Some(w.v[i].hash) ELSE None)]]

AllocPathEvents(path) ==
    Flatten([i \in DOMAIN path |->
                <<MEv(path[i].bit.id, NoId, NoId, TRUE),
                  MEv(path[i].hash.id, NoId, NoId, TRUE)>>])

\* poseidon_hash of an item in the circuit
CircuitLeafHash(j, part, item) ==
    MWire(WId(j, part, "leaf hash", 0),
          IF Values(item).some THEN Some(leaf_hash(Values(item).v)) ELSE None)

\* AllocatedNum::conditionally_reverse and poseidon_hash of one level: the
\* running hash goes left when the bit is true
CircuitLevelHash(j, part, level, hsh, cur, bit) ==
    MWire(WId(j, part, "hash", level),
          IF hsh.val.some /\ cur.val.some /\ bit.val.some
          THEN Some(IF bit.val.v THEN hash(cur.val.v, hsh.val.v)
                                 ELSE hash(hsh.val.v, cur.val.v))
          ELSE None)

\* the loop over the path in reverse: from the deepest level i up to the root
RECURSIVE PathFold(_, _, _, _, _)
PathFold(j, part, cur, path, i) ==
    IF i = 0 THEN cur
    ELSE PathFold(j, part,
                  CircuitLevelHash(j, part, i - 1, path[i].hash, cur, path[i].bit),
                  path, i - 1)

\* the constraints of that loop, deepest level first
PathFoldEvents(j, part, path) ==
    [n \in 1..Len(path) |->
        LET i == Len(path) + 1 - n
        IN  MEv(WId(j, part, "hash", i - 1), path[i].hash.id, path[i].bit.id, TRUE)]

\* swap_all leaving self.digest as it was
keep_digest(this, new_cur) == this

\* self.digest = new_cur
set_digest(this, new_cur) == [this EXCEPT !.digest = new_cur]

\* swap_all that leaves the native value as it was
AdvanceValue_kept(this, old, new) == [value |-> this.value, panicked |-> FALSE]

\* the native value advanced by the swap; the expects on the item values panic
AdvanceValue(this, old, new) ==
    IF ~this.value.some THEN [value |-> None, panicked |-> FALSE]
    ELSE IF ~Values(old).some \/ ~Values(new).some
    THEN [value |-> this.value, panicked |-> TRUE]
    ELSE LET r == MerkleSet_swap(this.value.v, Values(old).v, Values(new).v)
         IN  [value |-> Some(r.set), panicked |-> r.aborted]

\* ------------------------------------------------------------------- state
VARIABLES
    backend,   \* "rsa" (Set over NaiveExpSet) or "merkle" (MerkleSet): the native set under test
    seed,      \* the item collection the native set was constructed from
    rset,      \* the native Set
    present,   \* history: the multiset of encodings inserted and not removed since construction
    mset,      \* the native MerkleSet
    last,      \* history: the last call, whether its old item was present, what it returned
    nops,      \* number of single inserts / removes / swaps applied so far
    aborted,   \* the computation panicked
    args,      \* the untouched, removed and inserted item lists given to SetBenchInputs::new
    inputs,    \* Option<SetBenchInputs>
    native,    \* Option<Set>: initial_state advanced natively by swap_all
    pc,        \* SetBench::synthesize: the statement to execute next
    params,    \* SetBenchParams: n_removes, n_inserts
    syn,       \* the local variables of synthesize
    cs,        \* the constraint system: the log of allocations, inputs and constraints
    mpc,       \* MerkleCircuitSet::swap_all: the block of the loop body to execute next
    mc,        \* MerkleCircuitSet::swap_all: self, the item lists, the loop index, the path
    mlog       \* the constraint system of MerkleCircuitSet::swap_all

nativeVars == <<backend, seed, rset, present, mset, last, nops, aborted>>

inputVars == <<args, inputs, native>>

benchVars == <<pc, params, syn, cs>>

merkleCircuitVars == <<mpc, mc, mlog>>

vars == <<nativeVars, inputVars, benchVars, merkleCircuitVars>>

\* --------------------------------------------------- history of present items
BagAdd(b, e) == [b EXCEPT ![e] = @ + 1]

BagDel(b, e) == IF b[e] > 0 THEN [b EXCEPT ![e] = @ - 1] ELSE b

RECURSIVE BagAddAll(_, _)
BagAddAll(b, ns) ==
    IF ns = << >> THEN b
    ELSE BagAddAll(BagAdd(b, hash_to_rsa_element(Head(ns))), Tail(ns))

RECURSIVE BagDelAll(_, _)
BagDelAll(b, ns) ==
    IF ns = << >> THEN b
    ELSE BagDelAll(BagDel(b, hash_to_rsa_element(Head(ns))), Tail(ns))

RECURSIVE BagSwapAll(_, _, _)
BagSwapAll(b, old, new) ==
    IF old = << >> \/ new = << >> THEN b
    ELSE BagSwapAll(BagAdd(BagDel(b, hash_to_rsa_element(Head(old))),
                           hash_to_rsa_element(Head(new))),
                    Tail(old), Tail(new))

EmptyBag == [e \in EncVals |-> 0]

Min(a, b) == IF a <= b THEN a ELSE b

Max(a, b) == IF a >= b THEN a ELSE b

\* the occupied leaf positions of a MerkleSet
Occupied(this) == {p[2] : p \in {q \in DOMAIN this.nodes : q[1] = this.depth}}

\* some occupied leaf holds the leaf hash of the item
InTree(this, item) ==
    \E i \in Occupied(this) : this.nodes[<<this.depth, i>>] = leaf_hash(item)

NoCall ==
    [op |-> "new_with", old |-> << >>, new |-> << >>, olds |-> << >>, news |-> << >>,
     oldPresent |-> FALSE, ret |-> TRUE, aborted |-> FALSE, changed |-> FALSE]

\* ------------------------------------------------------ native set: actions
\* the variables of the batch inputs while no batch is built
IdleInputs ==
    /\ args = [untouched |-> << >>, removed |-> << >>, inserted |-> << >>]
    /\ inputs = None
    /\ native = None

\* an entry of the constraint system's log
Ev(kind, ns, i, j, ok) == [kind |-> kind, ns |-> ns, i |-> i, j |-> j, ok |-> ok]

\* the allocations of a list of wires, in order
AllocEvents(ws) == [k \in DOMAIN ws |-> Ev("alloc", ws[k].ns, ws[k].i, ws[k].j, TRUE)]

\* the local variables of synthesize before its first statement
SynInit ==
    [group |-> None, set |-> None, removals |-> << >>, insertions |-> << >>,
     to_hash_to_challenge |-> << >>, hashed |-> None, challenge |-> None,
     without |-> None, new_set |-> None, expected_digest |-> None,
     \* history: the challenge CircuitSet::remove and CircuitSet::insert received
     remove_challenge |-> None, insert_challenge |-> None,
     result |-> "running"]

\* the variables of the circuit while none is synthesized
IdleBench ==
    /\ pc = "idle"
    /\ params = [n_removes |-> 0, n_inserts |-> 0]
    /\ syn = SynInit
    /\ cs = << >>

\* the variables of the hash-tree circuit while none is synthesized
IdleMerkleCircuit ==
    /\ mpc = "idle"
    /\ mc = [self |-> MerkleCircuitSet_alloc(None), initial |-> MerkleCircuitSet_alloc(None),
             removed |-> << >>, inserted |-> << >>,
             j |-> 0, path |-> << >>, result |-> "running"]
    /\ mlog = << >>

\* the variables of the native set while none is under test
IdleNative ==
    /\ backend = "none"
    /\ seed = << >>
    /\ rset = Set_new_with(RsaGroup, << >>)
    /\ present = EmptyBag
    /\ mset = MerkleSet_new_with(Depth, << >>)
    /\ last = NoCall
    /\ nops = 0
    /\ aborted = FALSE

InitNative ==
    /\ IdleInputs
    /\ IdleBench
    /\ IdleMerkleCircuit
    /\ backend \in {"rsa", "merkle"}
    /\ seed \in SeqsUpTo(Items, MaxInit)
    /\ rset = Set_new_with(RsaGroup, IF backend = "rsa" THEN seed ELSE << >>)
    /\ present = BagAddAll(EmptyBag, IF backend = "rsa" THEN seed ELSE << >>)
    /\ mset = MerkleSet_new_with(Depth, IF backend = "merkle" THEN seed ELSE << >>)
    /\ last = NoCall
    /\ nops = 0
    /\ aborted = FALSE

RsaInsert(n) ==
    /\ backend = "rsa" /\ ~aborted /\ nops < MaxOps
    /\ LET r == Set_insert(rset, n)
       IN  /\ rset' = r.set
           /\ last' = [NoCall EXCEPT !.op = "insert", !.new = n, !.ret = r.ret,
                                     !.changed = (r.set # rset)]
    /\ present' = BagAdd(present, hash_to_rsa_element(n))
    /\ nops' = nops + 1
    /\ UNCHANGED <<backend, seed, mset, aborted, inputVars, benchVars, merkleCircuitVars>>

RsaRemove(n) ==
    /\ backend = "rsa" /\ ~aborted /\ nops < MaxOps
    /\ LET r == Set_remove(rset, n)
       IN  /\ rset' = r.set
           /\ last' = [NoCall EXCEPT !.op = "remove", !.old = n, !.ret = r.ret,
                                     !.oldPresent = (present[hash_to_rsa_element(n)] > 0),
                                     !.changed = (r.set # rset)]
    /\ present' = BagDel(present, hash_to_rsa_element(n))
    /\ nops' = nops + 1
    /\ UNCHANGED <<backend, seed, mset, aborted, inputVars, benchVars, merkleCircuitVars>>

RsaSwap(o, n) ==
    /\ backend = "rsa" /\ ~aborted /\ nops < MaxOps
    /\ rset' = Set_swap(rset, o, n)
    /\ last' = [NoCall EXCEPT !.op = "swap", !.old = o, !.new = n,
                              !.oldPresent = (present[hash_to_rsa_element(o)] > 0),
                              !.changed = (rset' # rset)]
    /\ present' = BagAdd(BagDel(present, hash_to_rsa_element(o)), hash_to_rsa_element(n))
    /\ nops' = nops + 1
    /\ UNCHANGED <<backend, seed, mset, aborted, inputVars, benchVars, merkleCircuitVars>>

RsaSwapAll(os, ns) ==
    /\ backend = "rsa" /\ ~aborted
    /\ nops + Max(1, Max(Len(os), Len(ns))) <= MaxOps
    /\ rset' = Set_swap_all(rset, os, ns)
    /\ last' = [NoCall EXCEPT !.op = "swap_all",
                              !.changed = (rset' # rset)]
    /\ present' = BagSwapAll(present, os, ns)
    /\ nops' = nops + Max(1, Max(Len(os), Len(ns)))
    /\ UNCHANGED <<backend, seed, mset, aborted, inputVars, benchVars, merkleCircuitVars>>

RsaRemoveAll(ns) ==
    /\ backend = "rsa" /\ ~aborted
    /\ nops + Max(1, Len(ns)) <= MaxOps
    /\ LET r == remove_all(rset, ns)
       IN  /\ rset' = r.set
           /\ last' = [NoCall EXCEPT !.op = "remove_all", !.ret = r.ret,
                                     !.changed = (r.set # rset)]
    /\ present' = BagDelAll(present, ns)
    /\ nops' = nops + Max(1, Len(ns))
    /\ UNCHANGED <<backend, seed, mset, aborted, inputVars, benchVars, merkleCircuitVars>>

RsaInsertAll(ns) ==
    /\ backend = "rsa" /\ ~aborted
    /\ nops + Max(1, Len(ns)) <= MaxOps
    /\ LET r == insert_all(rset, ns)
       IN  /\ rset' = r.set
           /\ last' = [NoCall EXCEPT !.op = "insert_all", !.ret = r.ret,
                                     !.changed = (r.set # rset)]
    /\ present' = BagAddAll(present, ns)
    /\ nops' = nops + Max(1, Len(ns))
    /\ UNCHANGED <<backend, seed, mset, aborted, inputVars, benchVars, merkleCircuitVars>>

MerkleSwap(o, n) ==
    /\ backend = "merkle" /\ ~aborted /\ nops < MaxOps
    /\ LET r == MerkleSet_swap(mset, o, n)
       IN  /\ mset' = r.set
           /\ aborted' = r.aborted
           /\ last' = [NoCall EXCEPT !.op = "swap", !.old = o, !.new = n,
                                     !.oldPresent = InTree(mset, o),
                                     !.aborted = r.aborted,
                                     !.changed = (r.set # mset)]
    /\ nops' = nops + 1
    /\ UNCHANGED <<backend, seed, rset, present, inputVars, benchVars, merkleCircuitVars>>

MerkleSwapAll(os, ns) ==
    /\ backend = "merkle" /\ ~aborted
    /\ nops + Max(1, Max(Len(os), Len(ns))) <= MaxOps
    /\ LET r == MerkleSet_swap_all(mset, os, ns)
       IN  /\ mset' = r.set
           /\ aborted' = r.aborted
           /\ last' = [NoCall EXCEPT !.op = "swap_all",
                                     !.aborted = r.aborted,
                                     !.changed = (r.set # mset)]
    /\ nops' = nops + Max(1, Max(Len(os), Len(ns)))
    /\ UNCHANGED <<backend, seed, rset, present, inputVars, benchVars, merkleCircuitVars>>

Batches == SeqsUpTo(Items, MaxBatch)

\* the batches the remaining number of operations allows
BatchesLeft == SeqsUpTo(Items, Min(MaxBatch, MaxOps - nops))

NextNative ==
    \/ \E n \in Items : RsaInsert(n)
    \/ \E n \in Items : RsaRemove(n)
    \/ \E o \in Items, n \in Items : RsaSwap(o, n)
    \/ \E os \in BatchesLeft, ns \in BatchesLeft : RsaSwapAll(os, ns)
    \/ \E ns \in BatchesLeft : RsaRemoveAll(ns)
    \/ \E ns \in BatchesLeft : RsaInsertAll(ns)
    \/ \E o \in Items, n \in Items : MerkleSwap(o, n)
    \/ \E os \in BatchesLeft, ns \in BatchesLeft : MerkleSwapAll(os, ns)

Init == InitNative

Next == NextNative

\* a native set of either backend
Spec == Init /\ [][Next]_vars

InitSet == InitNative /\ backend = "rsa"

NextSet ==
    \/ \E n \in Items : RsaInsert(n)
    \/ \E n \in Items : RsaRemove(n)
    \/ \E o \in Items, n \in Items : RsaSwap(o, n)
    \/ \E os \in BatchesLeft, ns \in BatchesLeft : RsaSwapAll(os, ns)
    \/ \E ns \in BatchesLeft : RsaRemoveAll(ns)
    \/ \E ns \in BatchesLeft : RsaInsertAll(ns)

\* the native RSA set alone
SpecSet == InitSet /\ [][NextSet]_vars

InitMerkle == InitNative /\ backend = "merkle"

NextMerkle ==
    \/ \E o \in Items, n \in Items : MerkleSwap(o, n)
    \/ \E os \in BatchesLeft, ns \in BatchesLeft : MerkleSwapAll(os, ns)

\* the native hash tree alone
SpecMerkle == InitMerkle /\ [][NextMerkle]_vars

\* ------------------------------------- one call on a fresh set: actions
\* Set::remove_all, its argument recorded
CallRemoveAll(ns) ==
    /\ backend = "rsa" /\ nops = 0
    /\ LET r == remove_all(rset, ns)
       IN  /\ rset' = r.set
           /\ last' = [NoCall EXCEPT !.op = "remove_all", !.olds = ns, !.ret = r.ret,
                                     !.changed = (r.set # rset)]
    /\ present' = BagDelAll(present, ns)
    /\ nops' = 1
    /\ UNCHANGED <<backend, seed, mset, aborted, inputVars, benchVars, merkleCircuitVars>>

\* Set::insert_all, its argument recorded
CallInsertAll(ns) ==
    /\ backend = "rsa" /\ nops = 0
    /\ LET r == insert_all(rset, ns)
       IN  /\ rset' = r.set
           /\ last' = [NoCall EXCEPT !.op = "insert_all", !.news = ns, !.ret = r.ret,
                                     !.changed = (r.set # rset)]
    /\ present' = BagAddAll(present, ns)
    /\ nops' = 1
    /\ UNCHANGED <<backend, seed, mset, aborted, inputVars, benchVars, merkleCircuitVars>>

\* GenSet::swap_all on a Set, its arguments recorded
CallSwapAll(os, ns) ==
    /\ backend = "rsa" /\ nops = 0
    /\ rset' = Set_swap_all(rset, os, ns)
    /\ last' = [NoCall EXCEPT !.op = "swap_all", !.olds = os, !.news = ns,
                              !.changed = (rset' # rset)]
    /\ present' = BagSwapAll(present, os, ns)
    /\ nops' = 1
    /\ UNCHANGED <<backend, seed, mset, aborted, inputVars, benchVars, merkleCircuitVars>>

\* GenSet::swap_all on a MerkleSet, its arguments recorded
CallMerkleSwapAll(os, ns) ==
    /\ backend = "merkle" /\ nops = 0
    /\ LET r == MerkleSet_swap_all(mset, os, ns)
       IN  /\ mset' = r.set
           /\ aborted' = r.aborted
           /\ last' = [NoCall EXCEPT !.op = "swap_all", !.olds = os, !.news = ns,
                                     !.aborted = r.aborted,
                                     !.changed = (r.set # mset)]
    /\ nops' = 1
    /\ UNCHANGED <<backend, seed, rset, present, inputVars, benchVars, merkleCircuitVars>>

NextCalls ==
    \/ \E n \in Items : nops = 0 /\ RsaInsert(n)
    \/ \E n \in Items : nops = 0 /\ RsaRemove(n)
    \/ \E ns \in Batches : CallRemoveAll(ns)
    \/ \E ns \in Batches : CallInsertAll(ns)
    \/ \E os \in Batches, ns \in Batches : CallSwapAll(os, ns)
    \/ \E os \in Batches, ns \in Batches : CallMerkleSwapAll(os, ns)

\* one call on a set as new_with built it
SpecCalls == InitNative /\ [][NextCalls]_vars

\* ------------------------------------------------- batch inputs: actions
InitInputs ==
    /\ IdleNative
    /\ IdleBench
    /\ IdleMerkleCircuit
    /\ args \in [untouched : SeqsUpTo(Items, MaxUntouched),
                 removed : Batches,
                 inserted : Batches]
    /\ inputs = None
    /\ native = None

\* SetBenchInputs::new
BuildInputs ==
    /\ ~inputs.some
    /\ inputs' = Some(SetBenchInputs_new(args.untouched, args.removed, args.inserted,
                                         RsaGroup))
    /\ UNCHANGED <<nativeVars, args, native, benchVars, merkleCircuitVars>>

\* the native accumulator: a clone of initial_state advanced by GenSet::swap_all
NativeSwapAll ==
    /\ inputs.some /\ ~native.some
    /\ native' = Some(Set_swap_all(inputs.v.initial_state,
                                   inputs.v.to_remove, inputs.v.to_insert))
    /\ UNCHANGED <<nativeVars, args, inputs, benchVars, merkleCircuitVars>>

NextInputs == BuildInputs \/ NativeSwapAll

\* batch inputs and their native accumulator
SpecInputs == InitInputs /\ [][NextInputs]_vars

\* ------------------------------------------- SetBench::synthesize: actions
\* A SetBench: without inputs (setup), or with the inputs SetBenchInputs::new
\* builds and the counts of its batch (proving).  The untouched items take
\* no part in the batch: they vary in number only.
InitBench ==
    /\ IdleNative
    /\ IdleMerkleCircuit
    /\ native = None
    /\ \/ /\ args = [untouched |-> << >>, removed |-> << >>, inserted |-> << >>]
          /\ inputs = None
          /\ params \in [n_removes : 0..MaxBatch, n_inserts : 0..MaxBatch]
       \/ /\ args \in [untouched : SeqsUpTo({Item(0)}, MaxUntouched),
                       removed : Batches,
                       inserted : Batches]
          /\ inputs = Some(SetBenchInputs_new(args.untouched, args.removed,
                                              args.inserted, RsaGroup))
          /\ params = [n_removes |-> Len(args.removed), n_inserts |-> Len(args.inserted)]
       \* inputs assembled field by field (the fields are public): the
       \* initial state holds the untouched items only
       \/ /\ args \in [untouched : SeqsUpTo({Item(0)}, MaxUntouched),
                       removed : Batches,
                       inserted : Batches]
          /\ inputs = Some([initial_state |-> Set_new_with(RsaGroup, args.untouched),
                            final_digest |-> fold_modpow(RsaGroup.g,
                                                         args.untouched \o args.inserted,
                                                         RsaGroup.m),
                            to_remove |-> args.removed,
                            to_insert |-> args.inserted])
          /\ params = [n_removes |-> Len(args.removed), n_inserts |-> Len(args.inserted)]
    /\ pc = "group"
    /\ syn = SynInit
    /\ cs = << >>

\* the field of the inputs, if there are inputs
InitialState == IF inputs.some THEN Some(inputs.v.initial_state) ELSE None

ToRemove == IF inputs.some THEN Some(inputs.v.to_remove) ELSE None

ToInsert == IF inputs.some THEN Some(inputs.v.to_insert) ELSE None

FinalDigest == IF inputs.some THEN Some(inputs.v.final_digest) ELSE None

\* CircuitRsaGroup::alloc and inputize
AllocGroup ==
    /\ pc = "group"
    /\ syn' = [syn EXCEPT !.group =
                  Wire("group", 0, 0,
                       IF inputs.some THEN Some(inputs.v.initial_state.inner.group)
                       ELSE None)]
    /\ cs' = cs \o <<Ev("alloc", "group", 0, 0, TRUE),
                     Ev("inputize", "group input", 0, 0, TRUE)>>
    /\ pc' = "set"
    /\ UNCHANGED <<nativeVars, inputVars, params, merkleCircuitVars>>

\* CircuitSet::alloc and inputize
AllocSet ==
    /\ pc = "set"
    /\ syn' = [syn EXCEPT !.set = CircuitSet_alloc("set init", InitialState)]
    /\ cs' = cs \o <<Ev("alloc", "set init", 0, 0, TRUE),
                     Ev("inputize", "initial_state input", 0, 0, TRUE)>>
    /\ pc' = "removals"
    /\ UNCHANGED <<nativeVars, inputVars, params, merkleCircuitVars>>

\* the allocation of the removed items; an item the inputs lack is an error
AllocRemovals ==
    /\ pc = "removals"
    /\ IF inputs.some /\ params.n_removes > Len(inputs.v.to_remove)
       THEN /\ syn' = [syn EXCEPT !.result = "err"]
            /\ pc' = "done"
            /\ cs' = cs
       ELSE LET removals == AllocItems("remove", params.n_removes, ToRemove)
            IN  /\ syn' = [syn EXCEPT !.removals = removals]
                /\ cs' = cs \o AllocEvents(Flatten(removals))
                /\ pc' = "insertions"
    /\ UNCHANGED <<nativeVars, inputVars, params, merkleCircuitVars>>

\* the allocation of the inserted items
AllocInsertions ==
    /\ pc = "insertions"
    /\ IF inputs.some /\ params.n_inserts > Len(inputs.v.to_insert)
       THEN /\ syn' = [syn EXCEPT !.result = "err"]
            /\ pc' = "done"
            /\ cs' = cs
       ELSE LET insertions == AllocItems("insert", params.n_inserts, ToInsert)
            IN  /\ syn' = [syn EXCEPT !.insertions = insertions]
                /\ cs' = cs \o AllocEvents(Flatten(insertions))
                /\ pc' = "to_hash"
    /\ UNCHANGED <<nativeVars, inputVars, params, merkleCircuitVars>>

\* to_hash_to_challenge: the digest's limbs, allocated, and two more extends
BuildToHash ==
    /\ pc = "to_hash"
    /\ syn' = [syn EXCEPT !.to_hash_to_challenge =
                  to_hash_to_challenge_of(syn.set, syn.insertions, syn.removals)]
    /\ cs' = cs \o AllocEvents(DigestLimbs(syn.set.inner.digest))
    /\ pc' = "challenge"
    /\ UNCHANGED <<nativeVars, inputVars, params, merkleCircuitVars>>

\* pocklington::hash_to_pocklington_prime
HashToChallenge ==
    /\ pc = "challenge"
    /\ syn' = [syn EXCEPT !.challenge = hash_to_pocklington_prime(syn.to_hash_to_challenge),
                          !.hashed = Some(syn.to_hash_to_challenge)]
    /\ cs' = Append(cs, Ev("hash", "chash", 0, 0, TRUE))
    /\ pc' = "swap remove"
    /\ UNCHANGED <<nativeVars, inputVars, params, merkleCircuitVars>>

\* CircuitSet::swap_all, first half: remove
SwapRemove ==
    /\ pc = "swap remove"
    /\ LET r == CircuitSet_remove(syn.set, "swap/remove", syn.challenge, syn.removals)
       IN  IF r.panicked
           THEN /\ syn' = [syn EXCEPT !.result = "panic"]
                /\ pc' = "done"
                /\ cs' = cs
           ELSE /\ syn' = [syn EXCEPT !.without = r.set,
                                     !.remove_challenge = Some(syn.challenge)]
                /\ cs' = cs \o AllocEvents(CircuitEncodings("swap/remove/hash", syn.removals))
                            \o <<Ev("enforce", "swap/remove/int removals", 0, 0, TRUE)>>
                /\ pc' = "swap insert"
    /\ UNCHANGED <<nativeVars, inputVars, params, merkleCircuitVars>>

\* an insert step that derives a challenge of its own from the digest after
\* the removals
SwapInsert_rehashes ==
    /\ pc = "swap insert"
    /\ LET again == hash_to_pocklington_prime(
                        to_hash_to_challenge_of(syn.without, syn.insertions, syn.removals))
       IN  /\ syn' = [syn EXCEPT !.new_set =
                         CircuitSet_insert(syn.without, "swap/insert", again, syn.insertions),
                                 !.insert_challenge = Some(again)]
           /\ cs' = cs \o <<Ev("hash", "swap/insert/chash", 0, 0, TRUE)>>
                       \o AllocEvents(CircuitEncodings("swap/insert/hash", syn.insertions))
                       \o <<Ev("enforce", "swap/insert/int insertions", 0, 0, TRUE)>>
    /\ pc' = "expected"
    /\ UNCHANGED <<nativeVars, inputVars, params, merkleCircuitVars>>

\* CircuitSet::swap_all, second half: insert
SwapInsert ==
    /\ pc = "swap insert"
    /\ syn' = [syn EXCEPT !.new_set =
                  CircuitSet_insert(syn.without, "swap/insert", syn.challenge, syn.insertions),
                          !.insert_challenge = Some(syn.challenge)]
    /\ cs' = cs \o AllocEvents(CircuitEncodings("swap/insert/hash", syn.insertions))
                \o <<Ev("enforce", "swap/insert/int insertions", 0, 0, TRUE)>>
    /\ pc' = "expected"
    /\ UNCHANGED <<nativeVars, inputVars, params, merkleCircuitVars>>

\* BigNat::alloc_from_nat of the expected digest
AllocExpected ==
    /\ pc = "expected"
    /\ syn' = [syn EXCEPT !.expected_digest = Wire("expected_digest", 0, 0, FinalDigest)]
    /\ cs' = Append(cs, Ev("alloc", "expected_digest", 0, 0, TRUE))
    /\ pc' = "check"
    /\ UNCHANGED <<nativeVars, inputVars, params, merkleCircuitVars>>

\* the final state made public before its digest is constrained
CheckDigest_input_first ==
    /\ pc = "check"
    /\ syn' = [syn EXCEPT !.result = "ok"]
    /\ cs' = cs \o <<Ev("inputize", "final_state input", 0, 0, TRUE),
                     Ev("enforce", "check", 0, 0,
                        syn.new_set.inner.digest.val = syn.expected_digest.val)>>
    /\ pc' = "done"
    /\ UNCHANGED <<nativeVars, inputVars, params, merkleCircuitVars>>

\* the equality constraint and the final public input
CheckDigest ==
    /\ pc = "check"
    /\ syn' = [syn EXCEPT !.result = "ok"]
    /\ cs' = cs \o <<Ev("enforce", "check", 0, 0,
                        syn.new_set.inner.digest.val = syn.expected_digest.val),
                     Ev("inputize", "final_state input", 0, 0, TRUE)>>
    /\ pc' = "done"
    /\ UNCHANGED <<nativeVars, inputVars, params, merkleCircuitVars>>

NextBench ==
    \/ AllocGroup
    \/ AllocSet
    \/ AllocRemovals
    \/ AllocInsertions
    \/ BuildToHash
    \/ HashToChallenge
    \/ SwapRemove
    \/ SwapInsert
    \/ AllocExpected
    \/ CheckDigest

\* the synthesis of one SetBench circuit
SpecBench == InitBench /\ [][NextBench]_vars

\* ------------------------------------ MerkleCircuitSet::swap_all: actions
\* seeds of distinct items
DistinctSeeds == {[i \in 1..n |-> Item(i - 1)] : n \in 0..Min(MaxInit, NItems)}

\* a loop that tests its condition after the body
LoopPc_body_first(m, j) ==
    IF j < Max(1, Min(Len(m.removed), Len(m.inserted))) THEN "alloc path" ELSE "done"

\* the block the loop executes next: the body for pair j, or the return
LoopPc(m, j) ==
    IF j < Min(Len(m.removed), Len(m.inserted)) THEN "alloc path" ELSE "done"

\* A MerkleCircuitSet and a batch: the set allocated without a value (setup)
\* or from a MerkleSet (proving), the items' wires with or without values.
InitMerkleCircuit ==
    /\ IdleNative
    /\ IdleInputs
    /\ IdleBench
    /\ \E withValue \in BOOLEAN, withValues \in BOOLEAN,
          items \in DistinctSeeds, os \in Batches, ns \in Batches :
         /\ ~withValue => items = << >>
         /\ mc = [self |-> MerkleCircuitSet_alloc(
                               IF withValue THEN Some(MerkleSet_new_with(Depth, items))
                               ELSE None),
                  \* history: self as swap_all received it
                  initial |-> MerkleCircuitSet_alloc(
                               IF withValue THEN Some(MerkleSet_new_with(Depth, items))
                               ELSE None),
                  removed |-> ItemWires("removed", os, withValues),
                  inserted |-> ItemWires("inserted", ns, withValues),
                  j |-> 0, path |-> << >>, result |-> "running"]
    /\ mpc = LoopPc(mc, 0)
    /\ mlog = << >>

\* "First, we allocate the path"
AllocPath ==
    /\ mpc = "alloc path"
    /\ LET old == mc.removed[mc.j + 1]
           w == NativeWitness(mc.self, old)
           path == AllocPathWires(mc.j, Depth, w.witness)
       IN  IF w.panicked
           THEN /\ mc' = [mc EXCEPT !.result = "panic"]
                /\ mpc' = "done"
                /\ mlog' = mlog
           ELSE /\ mc' = [mc EXCEPT !.path = path]
                /\ mpc' = "check old"
                /\ mlog' = mlog \o AllocPathEvents(path)
    /\ UNCHANGED <<nativeVars, inputVars, benchVars>>

\* "Now, check the old item"
CheckOld ==
    /\ mpc = "check old"
    /\ LET old == mc.removed[mc.j + 1]
           leaf == CircuitLeafHash(mc.j, "check old", old)
           cur == PathFold(mc.j, "check old", leaf, mc.path, Len(mc.path))
       IN  mlog' = mlog
                   \o <<MEv(leaf.id, old[1].id, NoId, TRUE)>>
                   \o PathFoldEvents(mc.j, "check old", mc.path)
                   \o <<MEv(WId(mc.j, "check old", "root check", 0),
                            cur.id, mc.self.digest.id,
                            cur.val = mc.self.digest.val)>>
    /\ mpc' = "add new"
    /\ UNCHANGED <<nativeVars, inputVars, benchVars, mc>>

\* "Now, add the new item"
AddNew ==
    /\ mpc = "add new"
    /\ LET old == mc.removed[mc.j + 1]
           new == mc.inserted[mc.j + 1]
           leaf == CircuitLeafHash(mc.j, "add new", new)
           new_cur == PathFold(mc.j, "add new", leaf, mc.path, Len(mc.path))
           self == set_digest(mc.self, new_cur)
           v == AdvanceValue(self, old, new)
       IN  /\ mlog' = mlog
                      \o <<MEv(leaf.id, new[1].id, NoId, TRUE)>>
                      \o PathFoldEvents(mc.j, "add new", mc.path)
           /\ IF v.panicked
              THEN /\ mc' = [mc EXCEPT !.self = self, !.result = "panic"]
                   /\ mpc' = "done"
              ELSE /\ mc' = [mc EXCEPT !.self = [self EXCEPT !.value = v.value],
                                       !.j = mc.j + 1,
                                       !.path = << >>]
                   /\ mpc' = LoopPc(mc, mc.j + 1)
    /\ UNCHANGED <<nativeVars, inputVars, benchVars>>

NextMerkleCircuit == AllocPath \/ CheckOld \/ AddNew

\* one call of MerkleCircuitSet::swap_all
SpecMerkleCircuit == InitMerkleCircuit /\ [][NextMerkleCircuit]_vars

\* -------------------------------------------- both circuit sets: one of them
InitCircuits == InitBench \/ InitMerkleCircuit

NextCircuits == NextBench \/ NextMerkleCircuit

\* the synthesis of a SetBench, or one call of MerkleCircuitSet::swap_all
SpecCircuits == InitCircuits /\ [][NextCircuits]_vars

\* ------------------------------------------------------------------ claims
RECURSIVE BagProduct(_, _)
BagProduct(b, todo) ==
    IF todo = {} THEN 1
    ELSE LET e == CHOOSE x \in todo : TRUE
         IN  Pow(e, b[e]) * BagProduct(b, todo \ {e})

\* C1: the digest of the native RSA set is the generator raised to the
\* product of the encodings of the elements present (inserted and not
\* removed), modulo the modulus, after construction and after every call.
C1_DigestConsistent ==
    backend = "rsa" =>
        Set_digest(rset) = ModPow(RsaG, BagProduct(present, EncVals), RsaM)

\* a swap of a present item happened and left a non-empty set
C1_Witness ==
    /\ backend = "rsa" /\ nops = 2
    /\ last.op = "swap" /\ last.oldPresent /\ last.old # last.new
    /\ \E e \in EncVals : present[e] > 1
    /\ Set_digest(rset) # RsaG

\* the positions of the tree above the leaves: those of the capacity and
\* every stored one
InnerPositions(this) ==
    {<<l, i>> : l \in 0..(this.depth - 1), i \in 0..(Pow(2, this.depth) - 1)}
        \cup {p \in DOMAIN this.nodes : p[1] < this.depth}

\* C2: every node above the leaves is the hash of its two children, absent
\* children read as the default of their level; defaults[depth] is zero and
\* defaults[l] hashes two copies of defaults[l + 1]; an empty tree has the
\* digest defaults[0].
C2_TreeConsistent ==
    backend = "merkle" =>
        /\ \A p \in InnerPositions(mset) :
               get_node(mset, p[1], p[2])
                   = hash(get_node(mset, p[1] + 1, 2 * p[2]),
                          get_node(mset, p[1] + 1, 2 * p[2] + 1))
        /\ mset.defaults[mset.depth] = Zero
        /\ \A l \in 0..(mset.depth - 1) :
               mset.defaults[l] = hash(mset.defaults[l + 1], mset.defaults[l + 1])
        /\ (seed = << >> /\ nops = 0) => MerkleSet_digest(mset) = mset.defaults[0]

\* a tree of two leaves after a swap that replaced one of them
C2_Witness ==
    /\ backend = "merkle" /\ ~aborted
    /\ Len(seed) = 2 /\ seed[1] # seed[2]
    /\ last.op = "swap" /\ last.old # last.new /\ last.changed
    /\ MerkleSet_digest(mset) # mset.defaults[0]

\* C3: leaf_indices is a bijection between the hashes of the occupied leaves
\* and the occupied leaf positions, also with equal initial items and with a
\* swap that inserts a hash that is already a leaf.
C3_LeafIndexBijection ==
    backend = "merkle" =>
        /\ \A i \in Occupied(mset) :
               {k \in DOMAIN mset.leaf_indices : mset.leaf_indices[k] = i}
                   = {mset.nodes[<<mset.depth, i>>]}
        /\ \A k \in DOMAIN mset.leaf_indices : mset.leaf_indices[k] \in Occupied(mset)

\* the orderings of a set of items
Orderings(T) == {s \in [1..Cardinality(T) -> T] : Range(s) = T}

Distinct(s) == \A i, j \in DOMAIN s : s[i] = s[j] => i = j

\* C4: for a fresh accumulator seeded with the item set S and o in S, the
\* digest after swap(o, n) is the digest of an accumulator seeded directly
\* with (S \ {o}) \cup {n} (for the hash tree: seeded with that set in some
\* order).
C4_SwapIsReseed ==
    (nops = 1 /\ last.op = "swap" /\ Distinct(seed) /\ last.old \in Range(seed)) =>
        LET T == (Range(seed) \ {last.old}) \cup {last.new}
        IN  /\ backend = "rsa" =>
                   \A s \in Orderings(T) :
                       Set_digest(rset) = Set_digest(Set_new_with(RsaGroup, s))
            /\ backend = "merkle" =>
                   /\ ~aborted
                   /\ \E s \in Orderings(T) :
                          MerkleSet_digest(mset)
                              = MerkleSet_digest(MerkleSet_new_with(Depth, s))

\* C5: swap(old, new) with old not present aborts: it does not return
\* normally and does not insert new, for Set::swap as for MerkleSet::swap.
C5_SwapOfAbsentAborts ==
    (last.op = "swap" /\ ~last.oldPresent) =>
        /\ last.aborted
        /\ aborted
        /\ ~last.changed

\* the rearrangements of a sequence
Perms(s) == {[i \in DOMAIN s |-> s[f[i]]] : f \in Permutations(DOMAIN s)}

\* the digest SetBenchInputs::new expects is the digest of the native set
\* that swap_all leaves
NativeMatchesExpected == Set_digest(native.v) = inputs.v.final_digest

\* the native value of CircuitSet::swap_all (all removals, then all
\* insertions) has the expected digest
RemoveThenInsertMatchesExpected ==
    Set_digest(insert_all(remove_all(inputs.v.initial_state, inputs.v.to_remove).set,
                          inputs.v.to_insert).set) = inputs.v.final_digest

\* C6 as stated: for any untouched, removed and inserted lists the expected
\* final_digest is the digest of initial_state after all swaps of the batch.
C6_ExpectedIsNative_AnyLists ==
    native.some => NativeMatchesExpected

\* C6 amended: for removed and inserted lists of equal length the expected
\* final_digest is the digest of initial_state after all swaps of the batch,
\* and for any lists it is the digest after removing all removed and
\* inserting all inserted items, which synthesize compares it with.
C6_ExpectedIsNative ==
    native.some =>
        /\ Len(args.removed) = Len(args.inserted) => NativeMatchesExpected
        /\ RemoveThenInsertMatchesExpected

\* a batch of two different swaps over a non-empty untouched list, done
C6_Witness ==
    /\ native.some
    /\ Len(args.removed) = 2 /\ Len(args.inserted) = 2
    /\ args.removed[1] # args.removed[2]
    /\ args.untouched # << >>
    /\ Set_digest(native.v) # Set_digest(inputs.v.initial_state)

\* neither digest changes under the rearrangement (p, q) of the batch
SameDigests(p, q) ==
    LET other == SetBenchInputs_new(args.untouched, p, q, RsaGroup)
    IN  /\ other.final_digest = inputs.v.final_digest
        /\ Set_digest(Set_swap_all(other.initial_state, p, q)) = Set_digest(native.v)

\* C7 as stated: permuting the removed and/or the inserted items of a batch
\* changes neither final_digest nor the digest after swap_all.
C7_PermutationInvariant_AnyLists ==
    native.some =>
        \A p \in Perms(args.removed), q \in Perms(args.inserted) : SameDigests(p, q)

\* C7 amended: the same for batches with as many removed as inserted items.
C7_PermutationInvariant ==
    (native.some /\ Len(args.removed) = Len(args.inserted)) =>
        \A p \in Perms(args.removed), q \in Perms(args.inserted) : SameDigests(p, q)

\* a batch of two swaps whose removed and whose inserted items differ, done
C7_Witness ==
    /\ native.some
    /\ Len(args.removed) = 2 /\ Len(args.inserted) = 2
    /\ args.removed[1] # args.removed[2]
    /\ args.inserted[1] # args.inserted[2]

\* the wire expected at position k (from 1) of the challenge hash's input:
\* the limbs of the initial digest, the inserted items, the removed items
ExpectedHashInput(k) ==
    LET nIns == params.n_inserts * ItemSize
        e == k - NLimbs - 1
        r == k - NLimbs - nIns - 1
    IN  IF k <= NLimbs
        THEN Wire("digest hash", k - 1, 0,
                  IF inputs.some
                  THEN Some(Limb(Set_digest(inputs.v.initial_state), k - 1))
                  ELSE None)
        ELSE IF k <= NLimbs + nIns
        THEN Wire("insert", e \div ItemSize, e % ItemSize,
                  IF inputs.some
                  THEN Some(inputs.v.to_insert[(e \div ItemSize) + 1][(e % ItemSize) + 1])
                  ELSE None)
        ELSE Wire("remove", r \div ItemSize, r % ItemSize,
                  IF inputs.some
                  THEN Some(inputs.v.to_remove[(r \div ItemSize) + 1][(r % ItemSize) + 1])
                  ELSE None)

\* C8: what synthesize hands to the challenge hash is the limbs of the
\* initial digest, then the elements of the inserted items in batch order,
\* then the elements of the removed items in batch order, and nothing else;
\* this holds in every later state as well.
C8_ChallengeInputOrder ==
    syn.hashed.some =>
        /\ Len(syn.hashed.v) = NLimbs + ItemSize * (params.n_inserts + params.n_removes)
        /\ \A k \in DOMAIN syn.hashed.v : syn.hashed.v[k] = ExpectedHashInput(k)

\* a proving run past the hash whose batch removes and inserts different items
C8_Witness ==
    /\ pc = "done" /\ syn.result = "ok" /\ inputs.some
    /\ params.n_removes = 2 /\ params.n_inserts = 1
    /\ args.removed[1] # args.inserted[1]
    /\ syn.hashed.some

\* the values of the digest's limbs
DigestLimbValues(digest) == [k \in 1..NLimbs |-> Limb(digest, k - 1)]

\* C9 as stated: the challenge is the hash of the current digest with the
\* removed items first and the inserted items second.
C9_ChallengeRemovedThenInserted ==
    (syn.hashed.some /\ inputs.some) =>
        syn.challenge.val =
            Some(PocklingtonPrime(DigestLimbValues(Set_digest(inputs.v.initial_state))
                                  \o Flatten(inputs.v.to_remove)
                                  \o Flatten(inputs.v.to_insert)))

\* C9 amended: the challenge is the hash of the current digest with the
\* inserted items first and the removed items second.
C9_ChallengeInsertedThenRemoved ==
    (syn.hashed.some /\ inputs.some) =>
        syn.challenge.val =
            Some(PocklingtonPrime(DigestLimbValues(Set_digest(inputs.v.initial_state))
                                  \o Flatten(inputs.v.to_insert)
                                  \o Flatten(inputs.v.to_remove)))

\* a challenge derived for a batch that removes one item and inserts another
C9_Witness ==
    /\ inputs.some /\ pc = "swap remove"
    /\ Len(args.removed) = 1 /\ Len(args.inserted) = 1
    /\ args.removed[1] # args.inserted[1]
    /\ syn.challenge.val.some

\* the entries of the log that are root checks
RootChecks == {n \in DOMAIN mlog : mlog[n].id.what = "root check"}

\* the root that the block `part` of swap k recomputes
RootOf(k, part) == WId(k, part, "hash", 0)

\* the order of a block within the body of the loop
PartOrder(part) ==
    CASE part = "alloc path" -> 0
      [] part = "check old" -> 1
      [] part = "add new" -> 2

\* C10: the swaps of MerkleCircuitSet::swap_all are processed in batch order
\* and chained.  The root check of swap k constrains the root recomputed
\* from old item k over the path of swap k equal to the root that swap k-1
\* recomputed from its new item (to the allocated digest for k = 0); the new
\* root of swap k, folded over the same path, is the digest left for swap
\* k+1; and the log never returns to an earlier swap or an earlier block of
\* the same swap.
C10_SwapsChained ==
    /\ \A n \in RootChecks :
          LET k == mlog[n].id.swap
          IN  /\ mlog[n].a = RootOf(k, "check old")
              /\ mlog[n].b = IF k = 0 THEN WId(-1, "digest", "alloc", 0)
                             ELSE RootOf(k - 1, "add new")
    /\ \A n \in DOMAIN mlog :
          LET e == mlog[n]
          IN  /\ e.id.what = "leaf hash" =>
                    e.a = WId(e.id.swap, IF e.id.part = "check old" THEN "removed"
                                         ELSE "inserted", "item", 0)
              /\ (e.id.what = "hash" /\ e.id.part \in {"check old", "add new"}) =>
                    /\ e.a = WId(e.id.swap, "alloc path", "hash", e.id.level)
                    /\ e.b = WId(e.id.swap, "alloc path", "direction", e.id.level)
    /\ \A m \in DOMAIN mlog, n \in DOMAIN mlog :
          m < n => \/ mlog[m].id.swap < mlog[n].id.swap
                   \/ /\ mlog[m].id.swap = mlog[n].id.swap
                      /\ PartOrder(mlog[m].id.part) <= PartOrder(mlog[n].id.part)
    /\ \A m \in RootChecks, n \in RootChecks : mlog[m].id.swap = mlog[n].id.swap => m = n
    /\ \A n \in DOMAIN mlog :
          mlog[n].id.part = "add new" =>
              \E m \in RootChecks : m < n /\ mlog[m].id.swap = mlog[n].id.swap
    /\ \A k \in 0..(mc.j - 1) : \E n \in RootChecks : mlog[n].id.swap = k
    /\ (mpc \in {"alloc path", "check old", "add new"} \/ mc.result = "running") =>
          mc.self.digest.id = IF mc.j = 0 THEN WId(-1, "digest", "alloc", 0)
                              ELSE RootOf(mc.j - 1, "add new")

\* a proving run that completed two swaps of different items
C10_Witness ==
    /\ mpc = "done" /\ mc.result = "running" /\ mc.j = 2
    /\ mc.self.value.some
    /\ Cardinality(RootChecks) = 2
    /\ \A n \in RootChecks : mlog[n].ok
    /\ mc.removed[1] # mc.removed[2]

\* C11: for the hash-tree backend, swap_all with no removed and no inserted
\* items returns at once with the digest wire and the native value it was
\* called with, and its log holds no root check (no constraint at all).
C11_EmptyBatchIsIdentity ==
    (mpc # "idle" /\ mc.removed = << >> /\ mc.inserted = << >>) =>
        /\ mpc = "done" /\ mc.result = "running"
        /\ mc.self.digest = mc.initial.digest
        /\ mc.self.value = mc.initial.value
        /\ RootChecks = {}
        /\ mlog = << >>

\* swap_all returned from an empty batch on a tree that holds items
C11_Witness ==
    /\ mpc = "done" /\ mc.removed = << >> /\ mc.inserted = << >>
    /\ mc.self.value.some
    /\ Occupied(mc.self.value.v) # {}
    /\ mc.self.digest.val = Some(MerkleSet_digest(mc.self.value.v))

\* the leaf i of a tree of the given depth and the nodes above it
PathPositions(depth, i) == {<<depth - k, i \div Pow(2, k)>> : k \in 0..depth}

\* the step is a call of MerkleSet::swap that returned
MerkleSwapReturned ==
    /\ backend = "merkle" /\ nops' = nops + 1
    /\ last'.op = "swap" /\ ~last'.aborted

\* C12: MerkleSet::swap(old, new) with old at leaf index i changes only the
\* leaf (depth, i) and the nodes from there up to the root; all other leaves
\* and nodes (the siblings of the path among them) keep their presence and
\* their value, as do the defaults and the depth; and the root changes
\* whenever hash(new) differs from hash(old).
C12_SwapTouchesOnlyPath ==
    [][MerkleSwapReturned =>
          LET i == mset.leaf_indices[leaf_hash(last'.old)]
              path == PathPositions(mset.depth, i)
          IN  /\ mset'.depth = mset.depth
              /\ mset'.defaults = mset.defaults
              /\ (DOMAIN mset'.nodes) \ path = (DOMAIN mset.nodes) \ path
              /\ \A p \in (DOMAIN mset.nodes) \ path : mset'.nodes[p] = mset.nodes[p]
              /\ \A l \in 1..mset.depth :
                    LET s == IF (i \div Pow(2, mset.depth - l)) % 2 = 0
                             THEN (i \div Pow(2, mset.depth - l)) + 1
                             ELSE (i \div Pow(2, mset.depth - l)) - 1
                    IN  get_node(mset', l, s) = get_node(mset, l, s)
              /\ mset'.nodes[<<mset.depth, i>>] = leaf_hash(last'.new)
              /\ leaf_hash(last'.new) # leaf_hash(last'.old) =>
                    MerkleSet_digest(mset') # MerkleSet_digest(mset)
    ]_vars

\* a returned swap of the leaf at position 1 by a different item, next to an
\* occupied leaf 0
C12_Witness ==
    /\ backend = "merkle" /\ last.op = "swap" /\ ~last.aborted
    /\ last.old # last.new
    /\ Occupied(mset) = {0, 1}
    /\ mset.nodes[<<mset.depth, 1>>] = leaf_hash(last.new)
    /\ mset.nodes[<<mset.depth, 0>>] # leaf_hash(last.new)

\* the items (values) of a list of item wires
ItemsOf(ws) == ItemValues(ws).v

\* proof generation on the RSA circuit set: some removed item is not an
\* element of the initial state
RsaRemovesAbsent ==
    /\ pc # "idle" /\ inputs.some
    /\ \E k \in DOMAIN inputs.v.to_remove :
          inputs.v.initial_state.inner.elements[hash_to_rsa_element(inputs.v.to_remove[k])] = 0

\* the RSA circuit never gets past CircuitSet::remove, and ends in its panic
RsaAborts ==
    /\ pc \notin {"swap insert", "expected", "check"}
    /\ pc = "done" => syn.result = "panic"
    /\ syn.without = None /\ syn.new_set = None

\* swap_all of the hash-tree circuit does not return: it ends in a panic
MerkleAborts == mpc = "done" => mc.result = "panic"

C13_WitnessMerkle ==
    /\ mpc = "done" /\ mc.result = "panic" /\ mc.j = 1
    /\ mc.initial.value.some

\* the public inputs of the constraint system, in the order they were made
PublicInputs ==
    LET IsInput(e) == e.kind = "inputize"
    IN  SelectSeq(cs, IsInput)

\* the log holds, before position n, an entry of that kind and namespace
LoggedBefore(n, kind, ns) ==
    \E m \in 1..(n - 1) : cs[m].kind = kind /\ cs[m].ns = ns

\* C14: synthesize makes public, in this order, the group, the initial set
\* and the final set, all three in a run that completes; the final set only
\* after the swap, the allocation of the expected digest and the equality
\* constraint; the wires of the removed and inserted items are allocated and
\* never made public.
C14_PublicInputOrder ==
    /\ Len(PublicInputs) <= 3
    /\ \A n \in DOMAIN PublicInputs :
          PublicInputs[n].ns = <<"group input", "initial_state input", "final_state input">>[n]
    /\ (pc = "done" /\ syn.result = "ok") => Len(PublicInputs) = 3
    /\ \A n \in DOMAIN cs :
          /\ cs[n].ns = "final_state input" =>
                /\ LoggedBefore(n, "enforce", "swap/remove/int removals")
                /\ LoggedBefore(n, "enforce", "swap/insert/int insertions")
                /\ LoggedBefore(n, "alloc", "expected_digest")
                /\ LoggedBefore(n, "enforce", "check")
          /\ cs[n].ns = "initial_state input" => LoggedBefore(n, "alloc", "set init")
          /\ cs[n].ns = "group input" => LoggedBefore(n, "alloc", "group")
          /\ cs[n].ns \in {"remove", "insert"} => cs[n].kind = "alloc"

\* a completed proving run with removed and inserted items
C14_Witness ==
    /\ pc = "done" /\ syn.result = "ok" /\ inputs.some
    /\ params.n_removes >= 1 /\ params.n_inserts >= 1
    /\ Len(PublicInputs) = 3
    /\ \E n \in DOMAIN cs : cs[n].ns = "remove"

\* the multiset of encodings of the items the set was built from
SeedBag == BagAddAll(EmptyBag, seed)

\* every item of the list is present when its turn comes, each removal
\* taking one copy away
RECURSIVE AllPresentInTurn(_, _)
AllPresentInTurn(b, ns) ==
    IF ns = << >> THEN TRUE
    ELSE /\ b[hash_to_rsa_element(Head(ns))] > 0
         /\ AllPresentInTurn(BagDel(b, hash_to_rsa_element(Head(ns))), Tail(ns))

\* every item of the list is absent when its turn comes, each insertion
\* adding one copy
RECURSIVE AllAbsentInTurn(_, _)
AllAbsentInTurn(b, ns) ==
    IF ns = << >> THEN TRUE
    ELSE /\ b[hash_to_rsa_element(Head(ns))] = 0
         /\ AllAbsentInTurn(BagAdd(b, hash_to_rsa_element(Head(ns))), Tail(ns))

\* C15: on a Set, remove returns true exactly when the item was present and
\* insert exactly when it was absent; remove_all returns true exactly when
\* every listed item was present at its turn and insert_all exactly when
\* every listed item was absent at its turn, and both go through the whole
\* list whatever the single calls returned.
C15_ReturnValues ==
    (backend = "rsa" /\ nops = 1) =>
        /\ last.op = "remove" =>
              last.ret = (SeedBag[hash_to_rsa_element(last.old)] > 0)
        /\ last.op = "insert" =>
              last.ret = (SeedBag[hash_to_rsa_element(last.new)] = 0)
        /\ last.op = "remove_all" =>
              /\ last.ret = AllPresentInTurn(SeedBag, last.olds)
              /\ rset.inner.elements = BagDelAll(SeedBag, last.olds)
        /\ last.op = "insert_all" =>
              /\ last.ret = AllAbsentInTurn(SeedBag, last.news)
              /\ rset.inner.elements = BagAddAll(SeedBag, last.news)

\* remove_all returned false for a list whose first item was absent and
\* whose second was present and has been removed
C15_Witness ==
    /\ backend = "rsa" /\ last.op = "remove_all" /\ ~last.ret
    /\ Len(last.olds) = 2
    /\ SeedBag[hash_to_rsa_element(last.olds[1])] = 0
    /\ SeedBag[hash_to_rsa_element(last.olds[2])] > 0
    /\ rset.inner.elements[hash_to_rsa_element(last.olds[2])] = 0

\* swap(old[i], new[i]) called on the Set for i, i + 1, ..., n
RECURSIVE SetAfterSwaps(_, _, _, _, _)
SetAfterSwaps(s, old, new, i, n) ==
    IF i > n THEN s
    ELSE SetAfterSwaps(Set_swap(s, old[i], new[i]), old, new, i + 1, n)

\* swap(old[i], new[i]) called on the MerkleSet for i, i + 1, ..., n, as far
\* as no call panics
RECURSIVE MerkleAfterSwaps(_, _, _, _, _)
MerkleAfterSwaps(t, old, new, i, n) ==
    IF i > n THEN [set |-> t, aborted |-> FALSE]
    ELSE LET r == MerkleSet_swap(t, old[i], new[i])
         IN  IF r.aborted THEN r ELSE MerkleAfterSwaps(r.set, old, new, i + 1, n)

\* C16: swap_all over two sequences of equal length n leaves the set as the
\* calls swap(old[i], new[i]), i = 0..n-1 in increasing order, leave it, each
\* on the state the previous one left (for both sets; on the MerkleSet up to
\* the first call that panics).
C16_SwapAllIsSequentialSwaps ==
    (nops = 1 /\ last.op = "swap_all" /\ Len(last.olds) = Len(last.news)) =>
        /\ backend = "rsa" =>
              rset = SetAfterSwaps(Set_new_with(RsaGroup, seed), last.olds, last.news,
                                   1, Len(last.olds))
        /\ backend = "merkle" =>
              LET r == MerkleAfterSwaps(MerkleSet_new_with(Depth, seed),
                                        last.olds, last.news, 1, Len(last.olds))
              IN  mset = r.set /\ aborted = r.aborted

\* swap_all of two pairs on a MerkleSet, the second swap undoing nothing
C16_Witness ==
    /\ backend = "merkle" /\ last.op = "swap_all" /\ ~aborted
    /\ Len(last.olds) = 2 /\ Len(last.news) = 2
    /\ last.olds[1] # last.olds[2]
    /\ last.news[1] # last.olds[1]
    /\ mset # MerkleSet_new_with(Depth, seed)

\* the hash of an item folded up a witness from its last pair to its first:
\* the running hash goes left when the bit is true
RECURSIVE FoldWitness(_, _, _)
FoldWitness(cur, w, i) ==
    IF i = 0 THEN cur
    ELSE FoldWitness(IF w[i].bit THEN hash(cur, w[i].hash) ELSE hash(w[i].hash, cur),
                     w, i - 1)

\* witness(item) returns, has depth pairs, and folds to digest()
WitnessFoldsToDigest(this, item) ==
    /\ leaf_hash(item) \in DOMAIN this.leaf_indices
    /\ LET w == witness(this, item)
       IN  /\ Len(w) = this.depth
           /\ FoldWitness(leaf_hash(item), w, Len(w)) = MerkleSet_digest(this)

\* C17: for a MerkleSet reached by new_with and swaps and any item that
\* occupies one of its leaves, witness(item) returns depth pairs (bit, sibling
\* hash) from the top level down, and folding hash(item) from the last pair to
\* the first, the running hash on the left when the bit is true, gives digest().
C17_WitnessFoldsToDigest ==
    (backend = "merkle" /\ ~aborted) =>
        \A item \in Items : InTree(mset, item) => WitnessFoldsToDigest(mset, item)

\* the same for the items that have a key in leaf_indices
C17_KeyedWitnessFoldsToDigest ==
    (backend = "merkle" /\ ~aborted) =>
        \A item \in Items :
            leaf_hash(item) \in DOMAIN mset.leaf_indices => WitnessFoldsToDigest(mset, item)

\* C18: MerkleSet::swap(old, new) puts the hash of new at the leaf index i that
\* old had, takes the key of old out of leaf_indices and maps the key of new
\* to i, leaving the other keys alone; and witness(new) after the swap is
\* witness(old) before it, bit for bit and sibling for sibling.
C18_SwapKeepsThePlace ==
    [][MerkleSwapReturned =>
          LET o_r == leaf_hash(last'.old)
              n == leaf_hash(last'.new)
              i == mset.leaf_indices[o_r]
          IN  /\ mset'.nodes[<<mset'.depth, i>>] = n
              /\ n # o_r => o_r \notin DOMAIN mset'.leaf_indices
              /\ n \in DOMAIN mset'.leaf_indices /\ mset'.leaf_indices[n] = i
              /\ (DOMAIN mset'.leaf_indices) \ {n} = (DOMAIN mset.leaf_indices) \ {o_r, n}
              /\ \A k \in (DOMAIN mset'.leaf_indices) \ {n} :
                    mset'.leaf_indices[k] = mset.leaf_indices[k]
              /\ witness(mset', last'.new) = witness(mset, last'.old)
    ]_vars

\* a returned swap that put a different item at leaf 1, next to an occupied
\* leaf 0: the key of old is gone, the key of new maps to 1
C18_Witness ==
    /\ backend = "merkle" /\ last.op = "swap" /\ ~last.aborted
    /\ last.old # last.new
    /\ Occupied(mset) = {0, 1}
    /\ leaf_hash(last.old) \notin DOMAIN mset.leaf_indices
    /\ leaf_hash(last.new) \in DOMAIN mset.leaf_indices
    /\ mset.leaf_indices[leaf_hash(last.new)] = 1
    /\ witness(mset, last.new)[mset.depth].bit = FALSE

\* C19: in MerkleCircuitSet::swap_all with a native value whose digest is the
\* value of the digest wire before the batch, after every swap of the batch
\* the value of the digest wire is the digest of the native MerkleSet in
\* value, and that MerkleSet is the one before the swap advanced by exactly
\* that swap (so after j swaps: the initial one advanced by the first j pairs).
C19_DigestWireFollowsValue ==
    (/\ mpc # "idle" /\ mc.result = "running"
     /\ mc.initial.value.some
     /\ ItemValues(mc.removed).some /\ ItemValues(mc.inserted).some
     /\ mc.initial.digest.val = Some(MerkleSet_digest(mc.initial.value.v))) =>
        /\ mc.self.value.some
        /\ mc.self.digest.val = Some(MerkleSet_digest(mc.self.value.v))
        /\ LET r == MerkleAfterSwaps(mc.initial.value.v, ItemsOf(mc.removed),
                                     ItemsOf(mc.inserted), 1, mc.j)
           IN  ~r.aborted /\ mc.self.value.v = r.set

\* swap_all returned after two swaps that moved the digest
C19_Witness ==
    /\ mpc = "done" /\ mc.result = "running" /\ mc.j = 2
    /\ mc.initial.value.some /\ mc.self.value.some
    /\ mc.self.digest.val # mc.initial.digest.val
    /\ mc.self.digest.val = Some(MerkleSet_digest(mc.self.value.v))
    /\ mc.self.value.v # mc.initial.value.v

\* the synthesis has produced the set without the removed items
HasWithout ==
    pc \in {"swap insert", "expected", "check"} \/ (pc = "done" /\ syn.result = "ok")

\* the synthesis has produced the set the batched swap returns
HasNewSet == pc \in {"expected", "check"} \/ (pc = "done" /\ syn.result = "ok")

\* the synthesis has allocated the initial set
HasSet == pc \notin {"idle", "group", "set"}

\* C20: in the setup phase (no inputs, native value None) the batched swap of
\* either circuit set reaches no abort path (the assertion on remove_all, the
\* missing-leaf lookup, the expects on the item values) and every circuit set
\* it produces has value None; and during proving, with a native value and the
\* item values present, the set that swap_all returns has a native value.
C20_SetupNeverAborts ==
    /\ (pc # "idle" /\ ~inputs.some) =>
          /\ syn.result # "panic"
          /\ HasSet => ~syn.set.value.some
          /\ HasWithout => ~syn.without.value.some
          /\ HasNewSet => ~syn.new_set.value.some
    /\ (mpc # "idle" /\ ~mc.initial.value.some) =>
          /\ mc.result # "panic"
          /\ ~mc.self.value.some
    /\ (pc # "idle" /\ inputs.some /\ HasNewSet) =>
          /\ syn.without.value.some
          /\ syn.new_set.value.some
    /\ (mpc = "done" /\ mc.result = "running" /\ mc.initial.value.some
          /\ ItemValues(mc.removed).some /\ ItemValues(mc.inserted).some) =>
          mc.self.value.some

\* setup of the hash-tree circuit: swap_all returned after two swaps, with
\* neither a native value nor item values
C20_Witness ==
    /\ mpc = "done" /\ mc.result = "running" /\ mc.j = 2
    /\ ~mc.initial.value.some /\ ~mc.self.value.some
    /\ ~ItemValues(mc.removed).some /\ ~ItemValues(mc.inserted).some
    /\ Len(mlog) > 0

\* setup of the RSA circuit: the synthesis completed a swap of two removals
\* and two insertions without inputs
C20_WitnessRsa ==
    /\ pc = "done" /\ syn.result = "ok" /\ ~inputs.some
    /\ params.n_removes = 2 /\ params.n_inserts = 2
    /\ ~syn.new_set.value.some

\* proving on the RSA circuit: the returned set carries its native value
C20_WitnessProving ==
    /\ pc = "done" /\ syn.result = "ok" /\ inputs.some
    /\ Len(inputs.v.to_remove) = 2
    /\ syn.new_set.value.some

\* the positions of the log at which a challenge was derived
HashPositions == {n \in DOMAIN cs : cs[n].kind = "hash"}

\* the namespaces of the constraints of CircuitSet::swap_all
SwapNamespaces ==
    {"swap/remove/hash", "swap/remove/int removals",
     "swap/insert/hash", "swap/insert/int insertions"}

\* the allocations of item witnesses logged before position h, in namespace ns
ItemAllocsBefore(h, ns) ==
    {n \in 1..(h - 1) : cs[n].kind = "alloc" /\ cs[n].ns = ns}

\* C21: synthesize derives the challenge once per batch, after the witnesses
\* of all removed and inserted items are allocated and before any constraint
\* of the swap, from the digest of the initial state; the removal step and the
\* insertion step of CircuitSet::swap_all both receive that one challenge, and
\* nothing of the set left by the removals is in what was hashed.
C21_OneChallengePerBatch ==
    /\ Cardinality(HashPositions) <= 1
    /\ syn.hashed.some <=> HashPositions # {}
    /\ \A h \in HashPositions :
          /\ cs[h].ns = "chash"
          /\ Cardinality(ItemAllocsBefore(h, "remove")) = params.n_removes * ItemSize
          /\ Cardinality(ItemAllocsBefore(h, "insert")) = params.n_inserts * ItemSize
          /\ \A n \in DOMAIN cs :
                /\ cs[n].ns \in {"remove", "insert"} => n < h
                /\ cs[n].ns \in SwapNamespaces => n > h
    /\ (\E n \in DOMAIN cs : cs[n].ns \in SwapNamespaces) => HashPositions # {}
    /\ syn.hashed.some =>
          /\ syn.challenge = hash_to_pocklington_prime(syn.hashed.v)
          /\ SubSeq(syn.hashed.v, 1, NLimbs) = DigestLimbs(syn.set.inner.digest)
          /\ inputs.some =>
                \A k \in 1..NLimbs :
                    syn.hashed.v[k].val = Some(Limb(Set_digest(inputs.v.initial_state), k - 1))
          /\ \A k \in DOMAIN syn.hashed.v :
                syn.hashed.v[k].ns \in {"digest hash", "insert", "remove"}
    /\ HasWithout => syn.remove_challenge = Some(syn.challenge)
    /\ HasNewSet => syn.insert_challenge = Some(syn.challenge)

\* a proving run that completed a batch of two removals and two insertions,
\* the digest after the removals differing from the initial digest
C21_Witness ==
    /\ pc = "done" /\ syn.result = "ok" /\ inputs.some
    /\ params.n_removes = 2 /\ params.n_inserts = 2
    /\ syn.without.inner.digest.val # syn.set.inner.digest.val
    /\ syn.remove_challenge = Some(syn.challenge)
    /\ syn.insert_challenge = Some(syn.challenge)
    /\ syn.challenge.val.some

\* the native set of the inputs after GenSet::swap_all over the two lists
NativeAfterSwapAll ==
    Set_swap_all(inputs.v.initial_state, inputs.v.to_remove, inputs.v.to_insert)

\* the circuit set removes all first and inserts all afterwards, applying
\* every item of both lists; the native swap_all interleaves remove and insert
\* over the pairs up to the length of the shorter list
RemoveAllThenInsertAll ==
    LET init == inputs.v.initial_state.inner.elements
        rem == inputs.v.to_remove
        ins == inputs.v.to_insert
        m == Min(Len(rem), Len(ins))
    IN  /\ HasWithout => syn.without.value.v.inner.elements = BagDelAll(init, rem)
        /\ HasNewSet =>
              syn.new_set.value.v.inner.elements = BagAddAll(BagDelAll(init, rem), ins)
        /\ NativeAfterSwapAll = SetAfterSwaps(inputs.v.initial_state, rem, ins, 1, m)
        /\ NativeAfterSwapAll.inner.elements =
              BagSwapAll(init, SubSeq(rem, 1, m), SubSeq(ins, 1, m))

\* the circuit's swap_all returns, and its native value has the elements and
\* the digest the native swap_all leaves
SameAsNativeSwapAll ==
    /\ pc = "done" => syn.result = "ok"
    /\ HasNewSet =>
          /\ syn.new_set.value.v.inner.elements = NativeAfterSwapAll.inner.elements
          /\ Set_digest(syn.new_set.value.v) = Set_digest(NativeAfterSwapAll)

\* C22: CircuitSet::swap_all advances its native value by removing all removed
\* items first and inserting all inserted items afterwards, the native
\* GenSet::swap_all pair by pair over the zipped lists (so without the items
\* beyond the shorter list, which the circuit does apply); and when the lists
\* have equal length and every removed item is an element of the initial set,
\* both leave a native set with the same elements and the same digest.
C22_CircuitSwapAllAgreesWithNative ==
    (pc # "idle" /\ inputs.some) =>
        /\ RemoveAllThenInsertAll
        /\ (/\ Len(inputs.v.to_remove) = Len(inputs.v.to_insert)
            /\ \A k \in DOMAIN inputs.v.to_remove :
                  inputs.v.initial_state.inner.elements[
                      hash_to_rsa_element(inputs.v.to_remove[k])] > 0)
           => SameAsNativeSwapAll

\* C22 amended: as C22, the agreement of elements and digest being claimed
\* when the lists have equal length and every removed item is in the initial
\* set at least as often as the list of removed items holds it.
C22_AgreesWhenPresentAsOftenAsRemoved ==
    (pc # "idle" /\ inputs.some) =>
        /\ RemoveAllThenInsertAll
        /\ (/\ Len(inputs.v.to_remove) = Len(inputs.v.to_insert)
            /\ AllPresentInTurn(inputs.v.initial_state.inner.elements, inputs.v.to_remove))
           => SameAsNativeSwapAll

\* a completed proving run whose lists differ in length: the circuit's native
\* value and the native swap_all differ
C22_WitnessUnequal ==
    /\ pc = "done" /\ syn.result = "ok" /\ inputs.some
    /\ Len(inputs.v.to_remove) = 1 /\ Len(inputs.v.to_insert) = 2
    /\ syn.new_set.value.v.inner.elements # NativeAfterSwapAll.inner.elements

\* a completed proving run of two pairs that agrees with the native swap_all
C22_WitnessEqual ==
    /\ pc = "done" /\ syn.result = "ok" /\ inputs.some
    /\ Len(inputs.v.to_remove) = 2 /\ Len(inputs.v.to_insert) = 2
    /\ inputs.v.to_remove[1] # inputs.v.to_insert[1]
    /\ syn.new_set.value.v.inner.elements = NativeAfterSwapAll.inner.elements

====
